---- MODULE Spec2Model ----
(***************************************************************************)
(* A model of src/src/css_parser.rs: the CSS value parsers.                *)
(*                                                                         *)
(* Strings are TLA+ strings, read with Len, SubSeq and \o only.  An f32 is *)
(* modelled by an exact rational <<n, d>> with d > 0 and gcd(n, d) = 1;    *)
(* the three non-finite values a division by zero produces are <<1, 0>>    *)
(* (+inf), <<-1, 0>> (-inf) and <<0, 0>> (NaN).  Rounding is not modelled. *)
(* An Option is a sequence of length 0 (None) or 1 (Some).  A Result is a  *)
(* record with ok = TRUE and val, or ok = FALSE and err = <<kind, payload>>.*)
(***************************************************************************)
EXTENDS Integers, Sequences, FiniteSets, TLC

VARIABLES callee, input, pc, result, gradient_type, direction, shape,
          color_stops, i, last_stop, increase_stop_cnt, next_count, box_shadow

vars == <<callee, input, pc, result, gradient_type, direction, shape,
          color_stops, i, last_stop, increase_stop_cnt, next_count, box_shadow>>

----------------------------------------------------------------------------
(* Option and Result *)

None == <<>>
Some(x) == <<x>>
IsSome(o) == Len(o) = 1
Unwrap(o) == o[1]

Ok(v) == [ok |-> TRUE, val |-> v]
Err(kind, payload) == [ok |-> FALSE, err |-> <<kind, payload>>]

----------------------------------------------------------------------------
(* str *)

Min(S) == CHOOSE x \in S : \A y \in S : x <= y
Max(S) == CHOOSE x \in S : \A y \in S : x >= y

Ch(s, k) == SubSeq(s, k, k)
From(s, k) == SubSeq(s, k, Len(s))
Upto(s, k) == SubSeq(s, 1, k)

starts_with(s, p) == Len(p) <= Len(s) /\ SubSeq(s, 1, Len(p)) = p
ends_with(s, p) == Len(p) <= Len(s) /\ SubSeq(s, Len(s) - Len(p) + 1, Len(s)) = p

\* Positions (1-based) at which pattern p occurs in s.
Occurrences(s, p) ==
    {k \in 1..(Len(s) - Len(p) + 1) : SubSeq(s, k, k + Len(p) - 1) = p}

\* str::splitn(2, p): at most two pieces, cut at the first occurrence of p.
splitn2(s, p) ==
    LET occ == Occurrences(s, p) IN
    IF occ = {} THEN <<s>>
    ELSE <<Upto(s, Min(occ) - 1), From(s, Min(occ) + Len(p))>>

\* str::rsplitn(2, p): at most two pieces, cut at the last occurrence of p,
\* yielded from the back: the text after it first, then the text before it.
rsplitn2(s, p) ==
    LET occ == Occurrences(s, p) IN
    IF occ = {} THEN <<s>>
    ELSE <<From(s, Max(occ) + Len(p)), Upto(s, Max(occ) - 1)>>

\* str::split(p): every piece, empty ones included; never an empty list.
RECURSIVE split(_, _)
split(s, p) ==
    LET occ == Occurrences(s, p) IN
    IF occ = {} THEN <<s>>
    ELSE <<Upto(s, Min(occ) - 1)>> \o split(From(s, Min(occ) + Len(p)), p)

White == {" ", "\t", "\n", "\r"}

\* str::split_whitespace(): the maximal runs of non-whitespace characters.
RECURSIVE split_whitespace(_)
split_whitespace(s) ==
    LET black == {k \in 1..Len(s) : Ch(s, k) \notin White} IN
    IF black = {} THEN <<>>
    ELSE LET b == Min(black)
             stop == {k \in b..Len(s) : Ch(s, k) \in White}
             e == IF stop = {} THEN Len(s) ELSE Min(stop) - 1
         IN <<SubSeq(s, b, e)>> \o split_whitespace(From(s, e + 1))

----------------------------------------------------------------------------
(* f32 *)

Abs(n) == IF n < 0 THEN -n ELSE n

RECURSIVE Gcd(_, _)
Gcd(a, b) == IF b = 0 THEN a ELSE Gcd(b, a % b)

RECURSIVE Pow10(_)
Pow10(k) == IF k = 0 THEN 1 ELSE 10 * Pow10(k - 1)

Sign(n) == IF n > 0 THEN 1 ELSE IF n < 0 THEN -1 ELSE 0

\* The f32 n/d; d = 0 gives the IEEE result of dividing n by zero.
Rat(n, d) ==
    IF d = 0 THEN <<Sign(n), 0>>
    ELSE LET g == Gcd(Abs(n), Abs(d))
             s == IF d < 0 THEN -1 ELSE 1
         IN <<(s * n) \div g, (s * d) \div g>>

F(n) == <<n, 1>>
IsFinite(x) == x[2] # 0
IsNaN(x) == x = <<0, 0>>

FAdd(x, y) ==
    IF IsFinite(x) /\ IsFinite(y) THEN Rat(x[1] * y[2] + y[1] * x[2], x[2] * y[2])
    ELSE IF IsNaN(x) \/ IsNaN(y) THEN <<0, 0>>
    ELSE IF IsFinite(x) THEN y
    ELSE IF IsFinite(y) \/ x = y THEN x
    ELSE <<0, 0>>

FNeg(x) == <<-x[1], x[2]>>
FSub(x, y) == FAdd(x, FNeg(y))

FMul(x, y) ==
    IF IsFinite(x) /\ IsFinite(y) THEN Rat(x[1] * y[1], x[2] * y[2])
    ELSE IF IsNaN(x) \/ IsNaN(y) \/ x[1] = 0 \/ y[1] = 0 THEN <<0, 0>>
    ELSE <<Sign(x[1]) * Sign(y[1]), 0>>

\* x / y for a finite y (y = 0 included: the IEEE infinities and NaN).
FDiv(x, y) ==
    IF ~IsFinite(x) THEN (IF y[1] < 0 THEN FNeg(x) ELSE x)
    ELSE Rat(x[1] * y[2], x[2] * y[1])

\* x <= y; every comparison with NaN is false.
FLe(x, y) ==
    IF IsNaN(x) \/ IsNaN(y) THEN FALSE
    ELSE IF IsFinite(x) /\ IsFinite(y) THEN x[1] * y[2] <= y[1] * x[2]
    ELSE IF ~IsFinite(x) THEN x[1] < 0 \/ x = y
    ELSE y[1] > 0

Digits == "0123456789"
IsDigit(c) == Occurrences(Digits, c) # {}
DigitVal(c) == Min(Occurrences(Digits, c)) - 1
AllDigits(s) == \A k \in 1..Len(s) : IsDigit(Ch(s, k))

RECURSIVE DecVal(_)
DecVal(s) == IF Len(s) = 0 THEN 0
             ELSE 10 * DecVal(Upto(s, Len(s) - 1)) + DigitVal(Ch(s, Len(s)))

\* <f32 as FromStr>::from_str: [sign] digits [. digits] [e [sign] digits],
\* with at least one digit in the mantissa, or "inf" / "NaN" after the sign.
StripSign(s) == IF starts_with(s, "-") \/ starts_with(s, "+") THEN From(s, 2) ELSE s

ExponentAt(body) == Occurrences(body, "e") \cup Occurrences(body, "E")

Mantissa(body) ==
    IF ExponentAt(body) = {} THEN body ELSE Upto(body, Min(ExponentAt(body)) - 1)

Exponent(body) ==
    IF ExponentAt(body) = {} THEN "0" ELSE From(body, Min(ExponentAt(body)) + 1)

IntPart(mant) ==
    IF Occurrences(mant, ".") = {} THEN mant ELSE Upto(mant, Min(Occurrences(mant, ".")) - 1)

FracPart(mant) ==
    IF Occurrences(mant, ".") = {} THEN "" ELSE From(mant, Min(Occurrences(mant, ".")) + 1)

Signed(neg, x) == IF neg THEN FNeg(x) ELSE x

Scaled(m, eneg, p) == IF eneg THEN FDiv(m, F(p)) ELSE FMul(m, F(p))

DecimalParts(s, neg, ipart, fpart, eneg, edig) ==
    IF /\ AllDigits(ipart) /\ AllDigits(fpart) /\ Len(ipart) + Len(fpart) >= 1
       /\ AllDigits(edig) /\ Len(edig) >= 1
    THEN Ok(Signed(neg, Scaled(Rat(DecVal(ipart \o fpart), Pow10(Len(fpart))),
                               eneg, Pow10(DecVal(edig)))))
    ELSE Err("ParseFloatError", s)

Decimal(s, neg, mant, expo) ==
    DecimalParts(s, neg, IntPart(mant), FracPart(mant),
                 starts_with(expo, "-"), StripSign(expo))

SignedBody(s, neg, body) ==
    IF body = "inf" THEN Ok(Signed(neg, <<1, 0>>))
    ELSE IF body = "NaN" THEN Ok(<<0, 0>>)
    ELSE Decimal(s, neg, Mantissa(body), Exponent(body))

parse_f32(s) == SignedBody(s, starts_with(s, "-"), StripSign(s))

----------------------------------------------------------------------------
(* Lengths *)

EM_HEIGHT == 16

\* A panic (an out-of-range slice, an unwrap of None): the call never returns.
Panic(why) == Err("panic", why)
IsPanic(r) == ~r.ok /\ r.err[1] = "panic"

is_numeric(c) == IsDigit(c)

\* split_pos after the loop and the increment: the byte index of the last
\* digit or '.' (0 when there is none), plus one.
SplitPos(s) ==
    LET marks == {k \in 1..Len(s) : is_numeric(Ch(s, k)) \/ Ch(s, k) = "."} IN
    (IF marks = {} THEN 0 ELSE Max(marks) - 1) + 1

PixelValue(unit, number) ==
    IF ~number.ok THEN Err("ValueParseErr", number.err)
    ELSE Ok([metric |-> IF unit = "px" THEN "Px" ELSE "Em", number |-> number.val])

PixelValueAt(s, split_pos) ==
    IF split_pos > Len(s) THEN Panic("byte index out of range")
    ELSE IF From(s, split_pos + 1) \notin {"px", "em"}
         THEN Err("InvalidComponent", From(s, split_pos))
    ELSE PixelValue(From(s, split_pos + 1), parse_f32(Upto(s, split_pos)))

parse_pixel_value(s) == PixelValueAt(s, SplitPos(s))

to_pixels(p) ==
    IF p.metric = "Px" THEN p.number ELSE FMul(p.number, F(EM_HEIGHT))

\* parse_pixel_value(tok)?.to_pixels()
ToPixels(p) == IF p.ok THEN Ok(to_pixels(p.val)) ELSE p
PixelsOf(tok) == ToPixels(parse_pixel_value(tok))

LayoutSize(w, h) == [width |-> w, height |-> h]

\* The first failing Result of a sequence of Results, or 0.
FirstErr(rs) ==
    LET bad == {k \in 1..Len(rs) : ~rs[k].ok} IN IF bad = {} THEN 0 ELSE Min(bad)

BorderRadius(tl, tr, br, bl) ==
    [top_left |-> LayoutSize(tl, tl), top_right |-> LayoutSize(tr, tr),
     bottom_right |-> LayoutSize(br, br), bottom_left |-> LayoutSize(bl, bl)]

\* Mutant of RadiusCorners: the arm for three values gives the third value
\* to the bottom-left corner too.
RadiusCorners_ThirdTwice(v) ==
    CASE Len(v) = 1 -> BorderRadius(v[1], v[1], v[1], v[1])
      [] Len(v) = 2 -> BorderRadius(v[1], v[2], v[1], v[2])
      [] Len(v) = 3 -> BorderRadius(v[1], v[2], v[3], v[3])
      [] Len(v) = 4 -> BorderRadius(v[1], v[2], v[3], v[4])

\* The corner assignment of each arm of the match on the token count; v is
\* the sequence of the tokens' pixel values, in token order.
RadiusCorners(v) ==
    CASE Len(v) = 1 -> BorderRadius(v[1], v[1], v[1], v[1])
      [] Len(v) = 2 -> BorderRadius(v[1], v[2], v[1], v[2])
      [] Len(v) = 3 -> BorderRadius(v[1], v[2], v[3], v[2])
      [] Len(v) = 4 -> BorderRadius(v[1], v[2], v[3], v[4])

RadiusResult(parsed) ==
    IF FirstErr(parsed) # 0 THEN parsed[FirstErr(parsed)]
    ELSE Ok(RadiusCorners([k \in 1..Len(parsed) |-> parsed[k].val]))

RadiusOf(s, components) ==
    IF Len(components) \notin 1..4 THEN Err("TooManyValues", s)
    ELSE RadiusResult([k \in 1..Len(components) |-> PixelsOf(components[k])])

parse_css_border_radius(s) == RadiusOf(s, split_whitespace(s))

----------------------------------------------------------------------------
(* Colours *)

ColorTable ==
    << <<"AliceBlue", "alice-blue", "F0F8FF">>,
       <<"AntiqueWhite", "antique-white", "FAEBD7">>,
       <<"Aqua", "aqua", "00FFFF">>,
       <<"Aquamarine", "aquamarine", "7FFFD4">>,
       <<"Azure", "azure", "F0FFFF">>,
       <<"Beige", "beige", "F5F5DC">>,
       <<"Bisque", "bisque", "FFE4C4">>,
       <<"Black", "black", "000000">>,
       <<"BlanchedAlmond", "blanched-almond", "FFEBCD">>,
       <<"Blue", "blue", "0000FF">>,
       <<"BlueViolet", "blue-violet", "8A2BE2">>,
       <<"Brown", "brown", "A52A2A">>,
       <<"BurlyWood", "burly-wood", "DEB887">>,
       <<"CadetBlue", "cadet-blue", "5F9EA0">>,
       <<"Chartreuse", "chartreuse", "7FFF00">>,
       <<"Chocolate", "chocolate", "D2691E">>,
       <<"Coral", "coral", "FF7F50">>,
       <<"CornflowerBlue", "cornflower-blue", "6495ED">>,
       <<"Cornsilk", "cornsilk", "FFF8DC">>,
       <<"Crimson", "crimson", "DC143C">>,
       <<"Cyan", "cyan", "00FFFF">>,
       <<"DarkBlue", "dark-blue", "00008B">>,
       <<"DarkCyan", "dark-cyan", "008B8B">>,
       <<"DarkGoldenRod", "dark-golden-rod", "B8860B">>,
       <<"DarkGray", "dark-gray", "A9A9A9">>,
       <<"DarkGrey", "dark-grey", "A9A9A9">>,
       <<"DarkGreen", "dark-green", "006400">>,
       <<"DarkKhaki", "dark-khaki", "BDB76B">>,
       <<"DarkMagenta", "dark-magenta", "8B008B">>,
       <<"DarkOliveGreen", "dark-olive-green", "556B2F">>,
       <<"DarkOrange", "dark-orange", "FF8C00">>,
       <<"DarkOrchid", "dark-orchid", "9932CC">>,
       <<"DarkRed", "dark-red", "8B0000">>,
       <<"DarkSalmon", "dark-salmon", "E9967A">>,
       <<"DarkSeaGreen", "dark-sea-green", "8FBC8F">>,
       <<"DarkSlateBlue", "dark-slate-blue", "483D8B">>,
       <<"DarkSlateGray", "dark-slate-gray", "2F4F4F">>,
       <<"DarkSlateGrey", "dark-slate-grey", "2F4F4F">>,
       <<"DarkTurquoise", "dark-turquoise", "00CED1">>,
       <<"DarkViolet", "dark-violet", "9400D3">>,
       <<"DeepPink", "deep-pink", "FF1493">>,
       <<"DeepSkyBlue", "deep-sky-blue", "00BFFF">>,
       <<"DimGray", "dim-gray", "696969">>,
       <<"DimGrey", "dim-grey", "696969">>,
       <<"DodgerBlue", "dodger-blue", "1E90FF">>,
       <<"FireBrick", "fire-brick", "B22222">>,
       <<"FloralWhite", "floral-white", "FFFAF0">>,
       <<"ForestGreen", "forest-green", "228B22">>,
       <<"Fuchsia", "fuchsia", "FF00FF">>,
       <<"Gainsboro", "gainsboro", "DCDCDC">>,
       <<"GhostWhite", "ghost-white", "F8F8FF">>,
       <<"Gold", "gold", "FFD700">>,
       <<"GoldenRod", "golden-rod", "DAA520">>,
       <<"Gray", "gray", "808080">>,
       <<"Grey", "grey", "808080">>,
       <<"Green", "green", "008000">>,
       <<"GreenYellow", "green-yellow", "ADFF2F">>,
       <<"HoneyDew", "honey-dew", "F0FFF0">>,
       <<"HotPink", "hot-pink", "FF69B4">>,
       <<"IndianRed", "indian-red", "CD5C5C">>,
       <<"Indigo", "indigo", "4B0082">>,
       <<"Ivory", "ivory", "FFFFF0">>,
       <<"Khaki", "khaki", "F0E68C">>,
       <<"Lavender", "lavender", "E6E6FA">>,
       <<"LavenderBlush", "lavender-blush", "FFF0F5">>,
       <<"LawnGreen", "lawn-green", "7CFC00">>,
       <<"LemonChiffon", "lemon-chiffon", "FFFACD">>,
       <<"LightBlue", "light-blue", "ADD8E6">>,
       <<"LightCoral", "light-coral", "F08080">>,
       <<"LightCyan", "light-cyan", "E0FFFF">>,
       <<"LightGoldenRodYellow", "light-golden-rod-yellow", "FAFAD2">>,
       <<"LightGray", "light-gray", "D3D3D3">>,
       <<"LightGrey", "light-grey", "D3D3D3">>,
       <<"LightGreen", "light-green", "90EE90">>,
       <<"LightPink", "light-pink", "FFB6C1">>,
       <<"LightSalmon", "light-salmon", "FFA07A">>,
       <<"LightSeaGreen", "light-sea-green", "20B2AA">>,
       <<"LightSkyBlue", "light-sky-blue", "87CEFA">>,
       <<"LightSlateGray", "light-slate-gray", "778899">>,
       <<"LightSlateGrey", "light-slate-grey", "778899">>,
       <<"LightSteelBlue", "light-steel-blue", "B0C4DE">>,
       <<"LightYellow", "light-yellow", "FFFFE0">>,
       <<"Lime", "lime", "00FF00">>,
       <<"LimeGreen", "lime-green", "32CD32">>,
       <<"Linen", "linen", "FAF0E6">>,
       <<"Magenta", "magenta", "FF00FF">>,
       <<"Maroon", "maroon", "800000">>,
       <<"MediumAquaMarine", "medium-aqua-marine", "66CDAA">>,
       <<"MediumBlue", "medium-blue", "0000CD">>,
       <<"MediumOrchid", "medium-orchid", "BA55D3">>,
       <<"MediumPurple", "medium-purple", "9370DB">>,
       <<"MediumSeaGreen", "medium-sea-green", "3CB371">>,
       <<"MediumSlateBlue", "medium-slate-blue", "7B68EE">>,
       <<"MediumSpringGreen", "medium-spring-green", "00FA9A">>,
       <<"MediumTurquoise", "medium-turquoise", "48D1CC">>,
       <<"MediumVioletRed", "medium-violet-red", "C71585">>,
       <<"MidnightBlue", "midnight-blue", "191970">>,
       <<"MintCream", "mint-cream", "F5FFFA">>,
       <<"MistyRose", "misty-rose", "FFE4E1">>,
       <<"Moccasin", "moccasin", "FFE4B5">>,
       <<"NavajoWhite", "navajo-white", "FFDEAD">>,
       <<"Navy", "navy", "000080">>,
       <<"OldLace", "old-lace", "FDF5E6">>,
       <<"Olive", "olive", "808000">>,
       <<"OliveDrab", "olive-drab", "6B8E23">>,
       <<"Orange", "orange", "FFA500">>,
       <<"OrangeRed", "orange-red", "FF4500">>,
       <<"Orchid", "orchid", "DA70D6">>,
       <<"PaleGoldenRod", "pale-golden-rod", "EEE8AA">>,
       <<"PaleGreen", "pale-green", "98FB98">>,
       <<"PaleTurquoise", "pale-turquoise", "AFEEEE">>,
       <<"PaleVioletRed", "pale-violet-red", "DB7093">>,
       <<"PapayaWhip", "papaya-whip", "FFEFD5">>,
       <<"PeachPuff", "peach-puff", "FFDAB9">>,
       <<"Peru", "peru", "CD853F">>,
       <<"Pink", "pink", "FFC0CB">>,
       <<"Plum", "plum", "DDA0DD">>,
       <<"PowderBlue", "powder-blue", "B0E0E6">>,
       <<"Purple", "purple", "800080">>,
       <<"RebeccaPurple", "rebecca-purple", "663399">>,
       <<"Red", "red", "FF0000">>,
       <<"RosyBrown", "rosy-brown", "BC8F8F">>,
       <<"RoyalBlue", "royal-blue", "4169E1">>,
       <<"SaddleBrown", "saddle-brown", "8B4513">>,
       <<"Salmon", "salmon", "FA8072">>,
       <<"SandyBrown", "sandy-brown", "F4A460">>,
       <<"SeaGreen", "sea-green", "2E8B57">>,
       <<"SeaShell", "sea-shell", "FFF5EE">>,
       <<"Sienna", "sienna", "A0522D">>,
       <<"Silver", "silver", "C0C0C0">>,
       <<"SkyBlue", "sky-blue", "87CEEB">>,
       <<"SlateBlue", "slate-blue", "6A5ACD">>,
       <<"SlateGray", "slate-gray", "708090">>,
       <<"SlateGrey", "slate-grey", "708090">>,
       <<"Snow", "snow", "FFFAFA">>,
       <<"SpringGreen", "spring-green", "00FF7F">>,
       <<"SteelBlue", "steel-blue", "4682B4">>,
       <<"Tan", "tan", "D2B48C">>,
       <<"Teal", "teal", "008080">>,
       <<"Thistle", "thistle", "D8BFD8">>,
       <<"Tomato", "tomato", "FF6347">>,
       <<"Turquoise", "turquoise", "40E0D0">>,
       <<"Violet", "violet", "EE82EE">>,
       <<"Wheat", "wheat", "F5DEB3">>,
       <<"White", "white", "FFFFFF">>,
       <<"WhiteSmoke", "white-smoke", "F5F5F5">>,
       <<"Yellow", "yellow", "FFFF00">>,
       <<"YellowGreen", "yellow-green", "9ACD32">>,
       <<"Transparent", "transparent", "FFFFFFFF">> >>

ColorU(r, g, b, a) == [r |-> r, g |-> g, b |-> b, a |-> a]

LowerHex == "0123456789abcdef"
UpperHex == "0123456789ABCDEF"

HexDigit(c, lower, upper) ==
    IF lower # {} THEN Ok(Min(lower) - 1)
    ELSE IF upper # {} THEN Ok(Min(upper) - 1)
    ELSE Err("InvalidColorComponent", c)

from_hex(c) == HexDigit(c, Occurrences(LowerHex, c), Occurrences(UpperHex, c))

RECURSIVE HexVal(_)
HexVal(s) == IF Len(s) = 0 THEN 0
             ELSE 16 * HexVal(Upto(s, Len(s) - 1)) + from_hex(Ch(s, Len(s))).val

\* u32::from_str_radix(s, 16): an optional '+', then one or more hex digits.
\* The u32 is kept as its 8 hex digits (zero-padded on the left); inputs of
\* more than 8 digits do not reach it (the caller's lengths are 6 and 8).
U32Digits(s, digits) ==
    IF Len(digits) >= 1 /\ \A k \in 1..Len(digits) : from_hex(Ch(digits, k)).ok
    THEN Ok(SubSeq("00000000", 1, 8 - Len(digits)) \o digits)
    ELSE Err("ParseIntError", s)

u32_from_str_radix16(s) ==
    U32Digits(s, IF starts_with(s, "+") THEN From(s, 2) ELSE s)

\* ((n >> shift) & 255) as u8, for shift = 8 * byte
ShiftedByte(n, byte) == HexVal(SubSeq(n, 7 - 2 * byte, 8 - 2 * byte))

\* Mutant of DoubledHex: the low nibble is not added.
DoubledHex_HighOnly(h) == IF h.ok THEN Ok((h.val * 16) % 256) ELSE h

\* from_hex(c)? * 16 + from_hex(c)?, in u8 arithmetic
DoubledHex(h) == IF h.ok THEN Ok((h.val * 16 + h.val) % 256) ELSE h
Doubled(c) == DoubledHex(from_hex(c))

\* The 3- and 4-digit arms: every digit doubled, alpha 255 without a fourth.
ShortHex(ch) ==
    IF FirstErr(ch) # 0 THEN ch[FirstErr(ch)]
    ELSE Ok(ColorU(ch[1].val, ch[2].val, ch[3].val,
                   IF Len(ch) = 4 THEN ch[4].val ELSE 255))

\* The 6- and 8-digit arms: the bytes of the parsed u32.
LongHex(len, n) ==
    IF ~n.ok THEN Err("ValueParseErr", n.err)
    ELSE IF len = 6
         THEN Ok(ColorU(ShiftedByte(n.val, 2), ShiftedByte(n.val, 1),
                        ShiftedByte(n.val, 0), 255))
    ELSE Ok(ColorU(ShiftedByte(n.val, 3), ShiftedByte(n.val, 2),
                   ShiftedByte(n.val, 1), ShiftedByte(n.val, 0)))

parse_color_no_hash(s) ==
    CASE Len(s) \in {3, 4} -> ShortHex([k \in 1..Len(s) |-> Doubled(Ch(s, k))])
      [] Len(s) \in {6, 8} -> LongHex(Len(s), u32_from_str_radix16(s))
      [] OTHER -> Err("InvalidColor", s)

BuiltinRow(rows) ==
    IF rows = {} THEN None ELSE Some(ColorTable[Min(rows)][3])

BuiltinHex(s) ==
    BuiltinRow({k \in 1..Len(ColorTable) : s = ColorTable[k][1] \/ s = ColorTable[k][2]})

BuiltinColor(s, hex) ==
    IF ~IsSome(hex) THEN Err("InvalidColor", s) ELSE parse_color_no_hash(Unwrap(hex))

parse_color_builtin(s) == BuiltinColor(s, BuiltinHex(s))

parse_css_color(s) ==
    IF starts_with(s, "#") THEN parse_color_no_hash(From(s, 2))
    ELSE parse_color_builtin(s)

\* ColorF::from(ColorU): each channel divided by 255.
ColorF(c) == [r |-> Rat(c.r, 255), g |-> Rat(c.g, 255), b |-> Rat(c.b, 255), a |-> Rat(c.a, 255)]

----------------------------------------------------------------------------
(* Borders and box shadows *)

parse_border_style(s) ==
    CASE s = "none" -> Ok("None")
      [] s = "solid" -> Ok("Solid")
      [] s = "double" -> Ok("Double")
      [] s = "dotted" -> Ok("Dotted")
      [] s = "dashed" -> Ok("Dashed")
      [] s = "hidden" -> Ok("Hidden")
      [] s = "groove" -> Ok("Groove")
      [] s = "ridge" -> Ok("Ridge")
      [] s = "inset" -> Ok("Inset")
      [] s = "outset" -> Ok("Outset")
      [] OTHER -> Err("InvalidBorderStyle", s)

\* Mutant of Border: the bottom width is left at 0.
Border_BottomUnset(thickness, style, color) ==
    LET border_side == [color |-> ColorF(color), style |-> style] IN
    [widths |-> [top |-> thickness, left |-> thickness,
                 right |-> thickness, bottom |-> F(0)],
     details |-> [top |-> border_side, left |-> border_side,
                  right |-> border_side, bottom |-> border_side,
                  radius |-> BorderRadius(F(0), F(0), F(0), F(0))]]

\* (BorderWidths, BorderDetails::Normal(NormalBorder)) of one thickness and
\* one side; color.into() makes the ColorF of the side.
Border(thickness, style, color) ==
    LET border_side == [color |-> ColorF(color), style |-> style] IN
    [widths |-> [top |-> thickness, left |-> thickness,
                 right |-> thickness, bottom |-> thickness],
     details |-> [top |-> border_side, left |-> border_side,
                  right |-> border_side, bottom |-> border_side,
                  radius |-> BorderRadius(F(0), F(0), F(0), F(0))]]

\* The three sub-parses of an arm, each ended by `?`.  The 3-token arm
\* parses thickness, style, colour in this order; the 1-token arm parses the
\* style only (the other two cannot fail).
BorderOf(thickness, style, color) ==
    IF ~thickness.ok THEN Err("ThicknessParseError", thickness.err)
    ELSE IF ~style.ok THEN style
    ELSE IF ~color.ok THEN Err("ColorParseError", color.err)
    ELSE Ok(Border(thickness.val, style.val, color.val))

\* Mutant of parse_css_border: two tokens are taken as thickness and style.
parse_css_border_TwoTokens(s) ==
    LET toks == split_whitespace(s) IN
    CASE Len(toks) = 1 ->
             BorderOf(Ok(F(1)), parse_border_style(toks[1]), Ok(ColorU(0, 0, 0, 255)))
      [] Len(toks) = 2 ->
             BorderOf(PixelsOf(toks[1]), parse_border_style(toks[2]),
                      Ok(ColorU(0, 0, 0, 255)))
      [] Len(toks) = 3 ->
             BorderOf(PixelsOf(toks[1]), parse_border_style(toks[2]),
                      parse_css_color(toks[3]))
      [] OTHER -> Err("InvalidBorderDeclaration", s)

parse_css_border(s) ==
    LET toks == split_whitespace(s) IN
    CASE Len(toks) = 1 ->
             BorderOf(Ok(F(1)), parse_border_style(toks[1]), Ok(ColorU(0, 0, 0, 255)))
      [] Len(toks) = 3 ->
             BorderOf(PixelsOf(toks[1]), parse_border_style(toks[2]),
                      parse_css_color(toks[3]))
      [] OTHER -> Err("InvalidBorderDeclaration", s)

\* box_shadow as parse_css_box_shadow creates it.
ShadowDefault ==
    [offset |-> [x |-> F(0), y |-> F(0)],
     color |-> [r |-> F(0), g |-> F(0), b |-> F(0), a |-> F(1)],
     blur_radius |-> F(0), spread_radius |-> F(0), clip_mode |-> "Outset"]

\* last_val == Some("inset") || last_val == Some("outset")
is_inset(toks) == Len(toks) > 0 /\ toks[Len(toks)] \in {"inset", "outset"}

\* Mutant of ClipMode: any trailing keyword, `outset` too, sets Inset.
ClipMode_AnyKeyword(toks) ==
    IF Len(toks) > 2 /\ is_inset(toks) THEN "Inset" ELSE "Outset"

\* if count > 2 && is_inset { clip_mode = Outset or Inset, as l_val says }
ClipMode(toks) ==
    IF Len(toks) > 2 /\ is_inset(toks) /\ toks[Len(toks)] = "inset"
    THEN "Inset" ELSE "Outset"

\* Mutant of NextStatement: the 4-token arm parses the blur whatever the last
\* token is, and skips the colour when the last token is a keyword.
NextStatement_BlurBeforeKeyword(stmt, count, inset) ==
    CASE stmt = "match" -> "h_offset"
      [] stmt = "h_offset" -> "v_offset"
      [] stmt = "v_offset" ->
             (CASE count = 2 -> "return"
                [] count = 3 -> IF inset THEN "return" ELSE "color"
                [] OTHER -> "blur")
      [] stmt = "blur" ->
             (CASE count = 4 -> IF inset THEN "return" ELSE "color"
                [] count = 5 -> IF inset THEN "color" ELSE "spread"
                [] OTHER -> "spread")
      [] stmt = "spread" -> "color"
      [] stmt = "color" -> "return"

\* The statement that follows stmt in the arm of `match count`, for count in
\* 2..6: each arm parses h_offset and v_offset, then what its `if !is_inset`
\* lets through.
NextStatement(stmt, count, inset) ==
    CASE stmt = "match" -> "h_offset"
      [] stmt = "h_offset" -> "v_offset"
      [] stmt = "v_offset" ->
             (CASE count = 2 -> "return"
                [] count = 3 -> IF inset THEN "return" ELSE "color"
                [] count = 4 -> IF inset THEN "color" ELSE "blur"
                [] OTHER -> "blur")
      [] stmt = "blur" ->
             (CASE count = 4 -> "color"
                [] count = 5 -> IF inset THEN "color" ELSE "spread"
                [] OTHER -> "spread")
      [] stmt = "spread" -> "color"
      [] stmt = "color" -> "return"

----------------------------------------------------------------------------
(* Directions, shapes, gradient stops *)

opposite(c) ==
    CASE c = "Right" -> "Left"
      [] c = "Left" -> "Right"
      [] c = "Top" -> "Bottom"
      [] c = "Bottom" -> "Top"
      [] c = "TopRight" -> "BottomLeft"
      [] c = "BottomLeft" -> "TopRight"
      [] c = "TopLeft" -> "BottomRight"
      [] c = "BottomRight" -> "TopLeft"

\* Mutant of combine: only the pairs written horizontal edge first.
combine_HorizontalFirst(a, b) ==
    CASE <<a, b>> = <<"Right", "Top">> -> Some("TopRight")
      [] <<a, b>> = <<"Left", "Top">> -> Some("TopLeft")
      [] <<a, b>> = <<"Right", "Bottom">> -> Some("BottomRight")
      [] <<a, b>> = <<"Left", "Bottom">> -> Some("BottomLeft")
      [] OTHER -> None

combine(a, b) ==
    CASE <<a, b>> \in {<<"Right", "Top">>, <<"Top", "Right">>} -> Some("TopRight")
      [] <<a, b>> \in {<<"Left", "Top">>, <<"Top", "Left">>} -> Some("TopLeft")
      [] <<a, b>> \in {<<"Right", "Bottom">>, <<"Bottom", "Right">>} -> Some("BottomRight")
      [] <<a, b>> \in {<<"Left", "Bottom">>, <<"Bottom", "Left">>} -> Some("BottomLeft")
      [] OTHER -> None

parse_direction_corner(s) ==
    CASE s = "right" -> Ok("Right")
      [] s = "left" -> Ok("Left")
      [] s = "top" -> Ok("Top")
      [] s = "bottom" -> Ok("Bottom")
      [] OTHER -> Err("InvalidDirection", s)

parse_shape(s) ==
    CASE s = "circle" -> Ok("Circle")
      [] s = "ellipse" -> Ok("Ellipse")
      [] OTHER -> Err("InvalidShape", s)

\* Direction::Angle(v * PI^pi): the f32 v, times PI when pi = 1.
Angle(v, pi) == [kind |-> "Angle", deg |-> v, pi |-> pi]
FromTo(start, end) == [kind |-> "FromTo", from |-> start, to |-> end]

\* DirectionCorner::to_point on a rect [x, y, width, height] (origin and
\* size): min_x and min_y are the origin, max_x and max_y the origin plus
\* the size; top_right is (max_x, min_y), bottom_left (min_x, max_y).
to_point(c, rect) ==
    CASE c = "Right" -> [x |-> FAdd(rect.x, rect.width),
                         y |-> FAdd(rect.y, FDiv(rect.height, F(2)))]
      [] c = "Left" -> [x |-> rect.x, y |-> FAdd(rect.y, FDiv(rect.height, F(2)))]
      [] c = "Top" -> [x |-> FAdd(rect.x, FDiv(rect.width, F(2))),
                       y |-> FAdd(rect.y, rect.height)]
      [] c = "Bottom" -> [x |-> FAdd(rect.x, FDiv(rect.width, F(2))), y |-> rect.y]
      [] c = "TopRight" -> [x |-> FAdd(rect.x, rect.width), y |-> rect.y]
      [] c = "TopLeft" -> [x |-> rect.x, y |-> rect.y]
      [] c = "BottomRight" -> [x |-> FAdd(rect.x, rect.width),
                               y |-> FAdd(rect.y, rect.height)]
      [] c = "BottomLeft" -> [x |-> rect.x, y |-> FAdd(rect.y, rect.height)]

\* Direction::to_points, the FromTo arm (the Angle arm is not modelled).
to_points(d, rect) ==
    CASE d.kind = "FromTo" -> <<to_point(d.from, rect), to_point(d.to, rect)>>

\* first_input.split(unit).next().unwrap().parse::<f32>()?
AngleNumber(first_input, unit) == parse_f32(split(first_input, unit)[1])

AngleTypeOf(first_input) ==
    IF ends_with(first_input, "deg") THEN "Deg"
    ELSE IF ends_with(first_input, "rad") THEN "Rad"
    ELSE IF ends_with(first_input, "grad") THEN "Gon"
    ELSE "None"

\* The value each arm of the match on the angle type puts in Angle.
DegValue(v) == Angle(v, 0)
RadValue(v) == Angle(FMul(v, F(180)), 1)
GonValue(v) == Angle(FMul(FDiv(v, F(400)), F(360)), 0)

AngleOf(type, number) ==
    IF ~number.ok THEN Err("ParseFloat", number.err)
    ELSE Ok(CASE type = "Deg" -> DegValue(number.val)
              [] type = "Rad" -> RadValue(number.val)
              [] type = "Gon" -> GonValue(number.val))

ParseAngle(type, first_input) ==
    AngleOf(type, AngleNumber(first_input,
                              CASE type = "Deg" -> "deg"
                                [] type = "Rad" -> "rad"
                                [] type = "Gon" -> "grad"))

\* "to bottom right": the two corners combined, from its opposite.
DirectionCombined(s, new_end) ==
    IF ~IsSome(new_end) THEN Err("Error", s)
    ELSE Ok(FromTo(opposite(Unwrap(new_end)), Unwrap(new_end)))

DirectionDiagonal(s, beginning, new_end) ==
    IF ~new_end.ok THEN Err("CornerError", new_end.err)
    ELSE DirectionCombined(s, combine(beginning, new_end.val))

DirectionTo(s, toks, end) ==
    IF ~end.ok THEN Err("CornerError", end.err)
    ELSE IF Len(toks) = 2 THEN Ok(FromTo(opposite(end.val), end.val))
    ELSE IF Len(toks) = 3
         THEN DirectionDiagonal(s, end.val, parse_direction_corner(toks[3]))
    ELSE Err("InvalidArguments", s)

DirectionOf(s, toks) ==
    IF Len(toks) = 0 THEN Err("Error", s)
    ELSE IF AngleTypeOf(toks[1]) # "None" THEN ParseAngle(AngleTypeOf(toks[1]), toks[1])
    ELSE IF toks[1] # "to" THEN Err("InvalidArguments", s)
    ELSE IF Len(toks) < 2 THEN Err("Error", s)
    ELSE DirectionTo(s, toks, parse_direction_corner(toks[2]))

parse_direction(s) == DirectionOf(s, split_whitespace(s))

PercentageOf(number) == IF number.ok THEN Some(number.val) ELSE None

PercentagePieces(pieces) ==
    IF Len(pieces) < 2 THEN None ELSE PercentageOf(parse_f32(pieces[2]))

parse_percentage(s) == PercentagePieces(rsplitn2(s, "%"))

GradientStopPre(offset, color) == [offset |-> offset, color |-> color]

StopColorOf(toks, color) ==
    IF ~color.ok THEN Err("ColorParseError", color.err)
    ELSE IF Len(toks) = 1 THEN Ok(GradientStopPre(None, ColorF(color.val)))
    ELSE Ok(GradientStopPre(parse_percentage(toks[2]), ColorF(color.val)))

StopOf(s, toks) ==
    IF Len(toks) = 0 THEN Err("Error", s)
    ELSE StopColorOf(toks, parse_css_color(toks[1]))

parse_gradient_stop(s) == StopOf(s, split_whitespace(s))

----------------------------------------------------------------------------
(* parse_css_background, up to the parsed stops *)

GradientTypeOf(first_item) ==
    CASE first_item = "linear-gradient" -> Some("LinearGradient")
      [] first_item = "repeating-linear-gradient" -> Some("RepeatingLinearGradient")
      [] first_item = "radial-gradient" -> Some("RadialGradient")
      [] first_item = "repeating-radial-gradient" -> Some("RepeatingRadialGradient")
      [] OTHER -> None

IsLinear(t) == t \in {"LinearGradient", "RepeatingLinearGradient"}
IsRadial(t) == t \in {"RadialGradient", "RepeatingRadialGradient"}

\* The text between the first '(' and the last ')': what follows the last
\* ')' is the piece rsplitn yields first, which the code drops.
BraceOf(brace_iter) == IF Len(brace_iter) < 2 THEN None ELSE Some(brace_iter[2])
BraceContents(next_item) == BraceOf(rsplitn2(next_item, ")"))

\* Whether the first comma-segment is consumed as the direction (linear
\* kinds) or the shape (radial kinds).
FirstItemDoesntCount(t, first_brace_item) ==
    \/ IsLinear(t) /\ parse_direction(first_brace_item).ok
    \/ IsRadial(t) /\ parse_shape(first_brace_item).ok

\* Mutant of GradientStopCount: the consumed first segment is still counted.
GradientStopCount_NoDecrement(segments, consumed) == Len(segments)

\* gradient_stop_count after the decrement for a consumed first segment.
GradientStopCount(segments, consumed) ==
    Len(segments) - (IF consumed THEN 1 ELSE 0)

\* The direction and the shape after the sniffing of the first segment.
DirectionFor(t, first_brace_item, consumed) ==
    IF IsLinear(t) /\ consumed THEN parse_direction(first_brace_item).val
    ELSE FromTo("Top", "Bottom")

ShapeFor(t, first_brace_item, consumed) ==
    IF IsRadial(t) /\ consumed THEN parse_shape(first_brace_item).val
    ELSE "Ellipse"

\* color_stops.push(parse_gradient_stop(..)?) for each segment, in order.
CollectStops(t, dir, sh, parsed) ==
    IF FirstErr(parsed) # 0 THEN Err("GradientParseError", parsed[FirstErr(parsed)].err)
    ELSE Ok([gradient_type |-> t, direction |-> dir, shape |-> sh,
             stops |-> [k \in 1..Len(parsed) |-> parsed[k].val]])

ParseStopSegments(t, dir, sh, stop_segments) ==
    CollectStops(t, dir, sh,
        [k \in 1..Len(stop_segments) |-> parse_gradient_stop(stop_segments[k])])

CheckStopCount(s, t, segments, consumed) ==
    IF GradientStopCount(segments, consumed) < 2 THEN Err("TooFewGradientStops", s)
    ELSE ParseStopSegments(t, DirectionFor(t, segments[1], consumed),
                           ShapeFor(t, segments[1], consumed),
                           IF consumed THEN Tail(segments) ELSE segments)

SniffFirst(s, t, segments) ==
    CheckStopCount(s, t, segments, FirstItemDoesntCount(t, segments[1]))

SplitBrace(s, t, contents) ==
    IF ~IsSome(contents) THEN Err("UnclosedGradient", s)
    ELSE SniffFirst(s, t, split(Unwrap(contents), ","))

DetectKind(s, input_iter, kind) ==
    IF ~IsSome(kind) THEN Err("InvalidBackground", input_iter[1])
    ELSE IF Len(input_iter) < 2 THEN Err("InvalidBackground", s)
    ELSE SplitBrace(s, Unwrap(kind), BraceContents(input_iter[2]))

SplitKeyword(s, input_iter) == DetectKind(s, input_iter, GradientTypeOf(input_iter[1]))

\* Everything parse_css_background does before it corrects the percentages:
\* Ok([gradient_type, direction, shape, stops]) or the error returned.
ParseHeader(s) == SplitKeyword(s, splitn2(s, "("))

----------------------------------------------------------------------------
(* parse_css_background: the loop that corrects the percentages *)

\* The stops after index idx (0-based) up to the first one with an offset:
\* next_count is how many there are without one, next_value that offset.
NextKnown(stops, idx) == {k \in (idx + 2)..Len(stops) : IsSome(stops[k].offset)}

LookAheadTo(stops, idx, known) ==
    IF known = {} THEN [next_count |-> Len(stops) - (idx + 1), next_value |-> None]
    ELSE [next_count |-> Min(known) - (idx + 2), next_value |-> stops[Min(known)].offset]

LookAhead(stops, idx) == LookAheadTo(stops, idx, NextKnown(stops, idx))

\* Mutant of Increase: the divisor counts the current stop as well.
Increase_CountsCurrent(nv, ls, nc) ==
    FDiv(FSub(IF IsSome(nv) THEN Unwrap(nv) ELSE F(1), ls), F(nc + 1))

\* (next_value.unwrap_or(1.0) - last_stop) / (next_count as f32)
Increase(nv, ls, nc) ==
    FDiv(FSub(IF IsSome(nv) THEN Unwrap(nv) ELSE F(1), ls), F(nc))

\* The offset given to the first stop of a run of stops without one.
FirstOfRun(idx, len, nc, ls) ==
    IF nc = 1 /\ len - idx = 1 THEN ls
    ELSE IF idx = 0 THEN F(0)
    ELSE ls

ExtendModeOf(t) ==
    IF t \in {"LinearGradient", "RadialGradient"} THEN "Clamp" ELSE "Repeat"

ParsedGradient(t, dir, sh, stops) ==
    IF IsLinear(t)
    THEN [variant |-> "LinearGradient", direction |-> dir,
          extend_mode |-> ExtendModeOf(t), stops |-> stops]
    ELSE [variant |-> "RadialGradient", shape |-> sh,
          extend_mode |-> ExtendModeOf(t), stops |-> stops]

----------------------------------------------------------------------------
(* Inputs *)

MaxStops == 4
MaxTokens == 5

RECURSIVE JoinWith(_, _)
JoinWith(parts, sep) ==
    IF Len(parts) = 0 THEN ""
    ELSE IF Len(parts) = 1 THEN parts[1]
    ELSE parts[1] \o sep \o JoinWith(Tail(parts), sep)

Keywords == {"linear-gradient", "repeating-linear-gradient",
             "radial-gradient", "repeating-radial-gradient"}

StopColors == <<"red", "lime", "blue", "yellow", "#0ff", "aqua">>
StopColor(k) == StopColors[((k - 1) % Len(StopColors)) + 1]

OffsetTexts == {"", "0%", "10%", "50%"}

\* The k-th stop segment, written with the offset text off (none when empty).
StopText(k, off) == StopColor(k) \o (IF off = "" THEN "" ELSE " " \o off)

Prefixes == {"", "to right", "circle"}

\* The body of a gradient: an optional first segment, then the stops.
BodyText(prefix, offs) ==
    LET stops == [k \in 1..Len(offs) |-> StopText(k, offs[k])] IN
    JoinWith((IF prefix = "" THEN <<>> ELSE <<prefix>>) \o stops, ", ")

OffsetLists == UNION {[1..n -> OffsetTexts] : n \in 0..MaxStops}

\* Gradients of every kind of stop list, with and without a first segment.
StopInputs ==
    {kw \o "(" \o BodyText(p, offs) \o ")" :
        kw \in {"linear-gradient", "repeating-radial-gradient"},
        p \in Prefixes, offs \in OffsetLists}

\* Every keyword, with and without each parenthesis and a trailing text.
ShapeInputs ==
    {kw \o open \o body \o close \o trail :
        kw \in Keywords \cup {"conic-gradient", ""},
        open \in {"(", ""},
        body \in {"red, yellow", "50deg, blue, yellow, #00FF00", "red 10%, nocolor",
                  "red inf%, lime, blue"},
        close \in {")", ""},
        trail \in {"", " x", ")"}}

BackgroundInputs == StopInputs \cup ShapeInputs

RadiusTokens == {"15px", "50px", "1.2em", "15pt"}

RadiusInputs ==
    {JoinWith(toks, " ") : toks \in UNION {[1..n -> RadiusTokens] : n \in 0..MaxTokens}}

MaxFree == 3

PropertyTokens == {"5px", "-2em", "red", "inset", "outset"}

\* Values of border-radius, border and box-shadow: zero to four lengths,
\* then up to MaxFree tokens of any kind.
PropertyInputs ==
    {"none", "solid", "5px solid red", "  5px   10px  "} \cup
    {JoinWith(SubSeq(<<"5px", "10px", "5px", "10px">>, 1, n) \o free, " ") :
        n \in 0..4, free \in UNION {[1..m -> PropertyTokens] : m \in 0..MaxFree}}

\* Length tokens: a number text, then a unit text.
PixelInputs ==
    {number \o unit :
        number \in {"", "15", "1.2", "0", "1e5", "1a5", "-5", "+5", ".5", ".", "1.2.3"},
        unit \in {"", "px", "em", "pt", "p", "x", "px "}}

\* Colour literals without the hash: three or four characters, three or
\* four pairs of characters, and other lengths.
HexInputs ==
    {JoinWith(d, "") : d \in [1..3 -> {"0", "a", "F", "g", "+"}]
                            \cup [1..4 -> {"0", "a", "F", "g", "+"}]
                            \cup [1..3 -> {"00", "7f", "A9", "0g", "+F"}]
                            \cup [1..4 -> {"00", "7f", "A9", "0g", "+F"}]}
    \cup {"", "0", "7f", "00000", "0000000", "000000000", "-00000"}

ColorInputs ==
    {"#" \o h : h \in HexInputs} \cup {"red", "Red", "RED", "transparent", "fff", "#"}
    \cup {ColorTable[k][1] : k \in 1..Len(ColorTable)}
    \cup {ColorTable[k][2] : k \in 1..Len(ColorTable)}

\* First gradient segments: a number and an angle unit, or corners.
DirectionInputs ==
    {number \o unit :
        number \in {"", "50", "1", "100", "-90", "0.5", "x"},
        unit \in {"deg", "rad", "grad", "turn", ""}}
    \cup {"to right", "to", "to top left", "to left left", "to right bottom x",
          "50deg x", "  2rad  ", "right", "to up"}
    \cup {"to " \o c : c \in {"right", "left", "top", "bottom"}}
    \cup {"to " \o c1 \o " " \o c2 : c1, c2 \in {"right", "left", "top", "bottom", "up"}}

CallInputs(name) ==
    CASE name \in {"parse_css_border_radius", "parse_css_border", "parse_css_box_shadow"}
             -> PropertyInputs
      [] name = "parse_pixel_value" -> PixelInputs
      [] name = "parse_color_no_hash" -> HexInputs
      [] name = "parse_css_color" -> ColorInputs
      [] name = "parse_direction" -> DirectionInputs
      [] name = "parse_percentage" ->
             {"", "%", "5%", "50%", "0.5%", "50", "5%0", "5%%", "%5", "x%", "5 %", "-5%"}
      [] name = "parse_gradient_stop" ->
             {"red", "red 50%", "red 50", "red 5%0", "red x%", "nocolor 5%", "",
              "#0f0 10% 20%"}
      [] name = "to_point" ->
             {[corner |-> c, rect |-> [x |-> F(x), y |-> F(y), width |-> F(w), height |-> F(h)]] :
                 c \in {"Right", "Left", "Top", "Bottom",
                        "TopRight", "TopLeft", "BottomRight", "BottomLeft"},
                 x \in {0, 10}, y \in {-5, 0, 10}, w \in {0, 20, 35}, h \in {0, 20, 35}}
      [] name = "to_points" ->
             {[direction |-> FromTo(opposite(c), c),
               rect |-> [x |-> F(x), y |-> F(y), width |-> F(w), height |-> F(h)]] :
                 c \in {"Bottom", "Right", "TopLeft"},
                 x \in {0, 10}, y \in {-5, 0, 10}, w \in {0, 20, 35}, h \in {0, 20, 35}}

----------------------------------------------------------------------------
(* parse_css_background as a state machine: one call per behaviour *)

Idle ==
    /\ result = None
    /\ gradient_type = "" /\ direction = FromTo("Top", "Bottom") /\ shape = "Ellipse"
    /\ color_stops = <<>>
    /\ i = 0 /\ last_stop = F(0) /\ increase_stop_cnt = None /\ next_count = 0
    /\ box_shadow = None

Init ==
    /\ callee = "parse_css_background"
    /\ input \in BackgroundInputs
    /\ pc = "call"
    /\ Idle

\* An early return with an error, before any offset is corrected.
Reject ==
    /\ pc = "call"
    /\ ~ParseHeader(input).ok
    /\ result' = Some(ParseHeader(input))
    /\ pc' = "done"
    /\ UNCHANGED <<callee, box_shadow, input, gradient_type, direction, shape, color_stops,
                   i, last_stop, increase_stop_cnt, next_count>>

\* The stops are parsed; the loop starts with last_stop = 0.0.
ParseStops ==
    /\ pc = "call"
    /\ ParseHeader(input).ok
    /\ gradient_type' = ParseHeader(input).val.gradient_type
    /\ direction' = ParseHeader(input).val.direction
    /\ shape' = ParseHeader(input).val.shape
    /\ color_stops' = ParseHeader(input).val.stops
    /\ i' = 0
    /\ last_stop' = F(0)
    /\ increase_stop_cnt' = None
    /\ pc' = "loop"
    /\ UNCHANGED <<callee, box_shadow, input, result, next_count>>

\* Mutant of StopWithOffset: the stored increase is not reset.
StopWithOffset_KeepsIncrease ==
    /\ pc = "loop" /\ i < Len(color_stops)
    /\ IsSome(color_stops[i + 1].offset)
    /\ last_stop' = Unwrap(color_stops[i + 1].offset)
    /\ i' = i + 1
    /\ UNCHANGED <<callee, box_shadow, input, pc, result, gradient_type, direction, shape,
                   color_stops, next_count, increase_stop_cnt>>

\* Some(s) => { last_stop = s; increase_stop_cnt = None; }
StopWithOffset ==
    /\ pc = "loop" /\ i < Len(color_stops)
    /\ IsSome(color_stops[i + 1].offset)
    /\ last_stop' = Unwrap(color_stops[i + 1].offset)
    /\ increase_stop_cnt' = None
    /\ i' = i + 1
    /\ UNCHANGED <<callee, box_shadow, input, pc, result, gradient_type, direction, shape,
                   color_stops, next_count>>

\* A later stop of a run: last_stop += increase_stop_cnt; continue 'outer
StopInRun ==
    /\ pc = "loop" /\ i < Len(color_stops)
    /\ ~IsSome(color_stops[i + 1].offset)
    /\ IsSome(increase_stop_cnt)
    /\ last_stop' = FAdd(last_stop, Unwrap(increase_stop_cnt))
    /\ color_stops' = [color_stops EXCEPT ![i + 1].offset = Some(last_stop')]
    /\ i' = i + 1
    /\ UNCHANGED <<callee, box_shadow, input, pc, result, gradient_type, direction, shape,
                   increase_stop_cnt, next_count>>

\* The first stop of a run: look ahead, store the increase, set the offset.
StopStartsRun ==
    /\ pc = "loop" /\ i < Len(color_stops)
    /\ ~IsSome(color_stops[i + 1].offset)
    /\ ~IsSome(increase_stop_cnt)
    /\ next_count' = LookAhead(color_stops, i).next_count
    /\ increase_stop_cnt' =
           Some(Increase(LookAhead(color_stops, i).next_value, last_stop, next_count'))
    /\ color_stops' = [color_stops EXCEPT ![i + 1].offset =
           Some(FirstOfRun(i, Len(color_stops), next_count', last_stop))]
    /\ i' = i + 1
    /\ UNCHANGED <<callee, box_shadow, input, pc, result, gradient_type, direction, shape, last_stop>>

\* The loop is over: Ok(ParsedGradient).
Return ==
    /\ pc = "loop" /\ i = Len(color_stops)
    /\ result' = Some(Ok(ParsedGradient(gradient_type, direction, shape, color_stops)))
    /\ pc' = "done"
    /\ UNCHANGED <<callee, box_shadow, input, gradient_type, direction, shape, color_stops,
                   i, last_stop, increase_stop_cnt, next_count>>

Next == Reject \/ ParseStops \/ StopWithOffset \/ StopInRun \/ StopStartsRun \/ Return

Spec == Init /\ [][Next]_vars

----------------------------------------------------------------------------
(* parse_css_border_radius: one call per behaviour *)

InitBorderRadius ==
    /\ callee = "parse_css_border_radius"
    /\ input \in RadiusInputs
    /\ pc = "call"
    /\ Idle

CallBorderRadius ==
    /\ pc = "call"
    /\ result' = Some(parse_css_border_radius(input))
    /\ pc' = "done"
    /\ UNCHANGED <<callee, box_shadow, input, gradient_type, direction, shape, color_stops,
                   i, last_stop, increase_stop_cnt, next_count>>

NextBorderRadius == CallBorderRadius

SpecBorderRadius == InitBorderRadius /\ [][NextBorderRadius]_vars

----------------------------------------------------------------------------
(* The other parsers: one call per behaviour.  parse_css_box_shadow runs
   statement by statement, i counting the tokens input_iter has handed out;
   the others are applied in one step. *)

GradientLocals ==
    <<gradient_type, direction, shape, color_stops, last_stop,
      increase_stop_cnt, next_count>>

Apply(name, s) ==
    CASE name = "parse_css_border_radius" -> parse_css_border_radius(s)
      [] name = "parse_css_border" -> parse_css_border(s)
      [] name = "parse_pixel_value" -> parse_pixel_value(s)
      [] name = "parse_color_no_hash" -> parse_color_no_hash(s)
      [] name = "parse_css_color" -> parse_css_color(s)
      [] name = "parse_direction" -> parse_direction(s)
      [] name = "parse_percentage" -> parse_percentage(s)
      [] name = "parse_gradient_stop" -> parse_gradient_stop(s)
      [] name = "to_point" -> to_point(s.corner, s.rect)
      [] name = "to_points" -> to_points(s.direction, s.rect)

InitCall ==
    /\ callee \in {"parse_css_border_radius", "parse_css_border", "parse_css_box_shadow",
                   "parse_pixel_value", "parse_color_no_hash", "parse_css_color",
                   "parse_direction", "parse_percentage", "parse_gradient_stop",
                   "to_point", "to_points"}
    /\ input \in CallInputs(callee)
    /\ pc = "call"
    /\ Idle

Call ==
    /\ pc = "call" /\ callee # "parse_css_box_shadow"
    /\ result' = Some(Apply(callee, input))
    /\ pc' = "done"
    /\ UNCHANGED <<callee, input, i, box_shadow, GradientLocals>>

\* count, box_shadow, last_val, the clip mode, and the arms of `match count`
\* that return at once.
ShadowMatch ==
    /\ pc = "call" /\ callee = "parse_css_box_shadow"
    /\ LET toks == split_whitespace(input) IN
       /\ box_shadow' = [ShadowDefault EXCEPT !.clip_mode = ClipMode(toks)]
       /\ IF Len(toks) = 1
          THEN /\ i' = 1
               /\ result' = Some(IF toks[1] = "none" THEN Ok(None)
                                 ELSE Err("InvalidSingleStatement", input))
               /\ pc' = "done"
          ELSE IF Len(toks) \in 2..6
          THEN /\ i' = 0
               /\ result' = result
               /\ pc' = NextStatement("match", Len(toks), is_inset(toks))
          ELSE /\ i' = 0
               /\ result' = Some(Err("TooManyComponents", input))
               /\ pc' = "done"
    /\ UNCHANGED <<callee, input, GradientLocals>>

\* let x = parse_pixel_value(input_iter.next().unwrap())?.to_pixels();
\* box_shadow.<field> = x;
ShadowLength ==
    /\ callee = "parse_css_box_shadow"
    /\ pc \in {"h_offset", "v_offset", "blur", "spread"}
    /\ LET toks == split_whitespace(input)
           value == PixelsOf(toks[i + 1])
       IN /\ i' = i + 1
          /\ IF ~value.ok
             THEN /\ result' = Some(Err("ValueParseErr", value.err))
                  /\ pc' = "done"
                  /\ box_shadow' = box_shadow
             ELSE /\ result' = result
                  /\ pc' = NextStatement(pc, Len(toks), is_inset(toks))
                  /\ box_shadow' =
                         CASE pc = "h_offset" -> [box_shadow EXCEPT !.offset.x = value.val]
                           [] pc = "v_offset" -> [box_shadow EXCEPT !.offset.y = value.val]
                           [] pc = "blur" -> [box_shadow EXCEPT !.blur_radius = value.val]
                           [] pc = "spread" -> [box_shadow EXCEPT !.spread_radius = value.val]
    /\ UNCHANGED <<callee, input, GradientLocals>>

\* let color = parse_css_color(input_iter.next().unwrap())?;
\* box_shadow.color = ColorF::from(color);
ShadowColor ==
    /\ callee = "parse_css_box_shadow"
    /\ pc = "color"
    /\ LET toks == split_whitespace(input)
           color == parse_css_color(toks[i + 1])
       IN /\ i' = i + 1
          /\ IF ~color.ok
             THEN /\ result' = Some(Err("ColorParseError", color.err))
                  /\ pc' = "done"
                  /\ box_shadow' = box_shadow
             ELSE /\ result' = result
                  /\ pc' = NextStatement(pc, Len(toks), is_inset(toks))
                  /\ box_shadow' = [box_shadow EXCEPT !.color = ColorF(color.val)]
    /\ UNCHANGED <<callee, input, GradientLocals>>

\* Ok(Some(box_shadow))
ShadowReturn ==
    /\ callee = "parse_css_box_shadow"
    /\ pc = "return"
    /\ result' = Some(Ok(Some(box_shadow)))
    /\ pc' = "done"
    /\ UNCHANGED <<callee, input, i, box_shadow, GradientLocals>>

NextCall == Call \/ ShadowMatch \/ ShadowLength \/ ShadowColor \/ ShadowReturn

SpecCall == InitCall /\ [][NextCall]_vars

----------------------------------------------------------------------------
(* What the claims speak of *)

Returned == pc = "done"
Accepted == pc = "done" /\ Unwrap(result).ok
Rejected == pc = "done" /\ ~Unwrap(result).ok
ErrorKind == Unwrap(result).err[1]

\* The stops of the returned gradient and their offsets.
Stops == Unwrap(result).val.stops
Offset(k) == Stops[k].offset

\* The stops as written in the input: an explicit offset or none.
Written == ParseHeader(input).val.stops
Explicit(k) == IsSome(Written[k].offset)

\* The keyword before the first '(', the text between the first '(' and the
\* last ')', its comma-segments, and those left once the prefix is consumed.
KeywordOf(s) == splitn2(s, "(")[1]
HasShape(s) ==
    /\ KeywordOf(s) \in Keywords
    /\ Len(splitn2(s, "(")) = 2
    /\ IsSome(BraceContents(splitn2(s, "(")[2]))
Segments(s) == split(Unwrap(BraceContents(splitn2(s, "(")[2])), ",")
PrefixConsumed(s) ==
    \/ KeywordOf(s) \in {"linear-gradient", "repeating-linear-gradient"}
       /\ parse_direction(Segments(s)[1]).ok
    \/ KeywordOf(s) \in {"radial-gradient", "repeating-radial-gradient"}
       /\ Segments(s)[1] \in {"circle", "ellipse"}
StopSegments(s) == IF PrefixConsumed(s) THEN Tail(Segments(s)) ELSE Segments(s)

\* a + k * (b - a) / n
Between(a, b, k, n) == FAdd(a, FDiv(FMul(F(k), FSub(b, a)), F(n)))

----------------------------------------------------------------------------
(* C1: a gradient whose n >= 2 stops all lack an offset gets the offsets
   k/(n-1), k = 0..n-1: 0.0 first, 1.0 last, evenly spaced, for linear and
   radial kinds, with or without a consumed first segment. *)
C1_EvenSpacing ==
    (Accepted /\ \A k \in 1..Len(Written) : ~Explicit(k))
        => \A k \in 1..Len(Stops) : Offset(k) = Some(Rat(k - 1, Len(Stops) - 1))

C1_Witness ==
    /\ Accepted
    /\ \A k \in 1..Len(Written) : ~Explicit(k)
    /\ Len(Stops) = 4
    /\ Unwrap(result).val.variant = "RadialGradient"
    /\ PrefixConsumed(input)
    /\ Offset(2) = Some(Rat(1, 3)) /\ Offset(3) = Some(Rat(2, 3))

(* C2: the n >= 1 stops without an offset that follow the last explicit
   offset a up to the end of the list get a + k*(1-a)/n, k = 1..n. *)
C2_TrailingRun ==
    Accepted =>
        \A p \in 1..Len(Stops) :
            (Explicit(p) /\ \A q \in (p + 1)..Len(Stops) : ~Explicit(q))
                => \A k \in 1..(Len(Stops) - p) :
                      Offset(p + k) = Some(Between(Unwrap(Offset(p)), F(1), k, Len(Stops) - p))

(* C3: a stop written "<color> P%" has the offset P/100 in the returned
   gradient. *)
C3_PercentIsFraction ==
    Accepted =>
        \A k \in 1..Len(Stops) :
            LET toks == split_whitespace(StopSegments(input)[k]) IN
            (Len(toks) >= 2 /\ ends_with(toks[2], "%")
                /\ AllDigits(Upto(toks[2], Len(toks[2]) - 1)) /\ Len(toks[2]) >= 2)
                => Offset(k) = Some(Rat(DecVal(Upto(toks[2], Len(toks[2]) - 1)), 100))

(* C4: a first stop without an offset gets 0.0 and a last stop without an
   offset gets 1.0, also when the last stop alone follows an explicit one. *)
C4_EndpointsFixed ==
    Accepted =>
        /\ ~Explicit(1) => Offset(1) = Some(F(0))
        /\ ~Explicit(Len(Stops)) => Offset(Len(Stops)) = Some(F(1))

(* C5: a maximal run of n >= 1 stops without an offset between the explicit
   offsets a (just before) and b (just after) gets a + k*(b-a)/(n+1),
   k = 1..n. *)
C5_InteriorRun ==
    Accepted =>
        \A p, q \in 1..Len(Stops) :
            (p + 1 < q /\ Explicit(p) /\ Explicit(q)
                /\ \A m \in (p + 1)..(q - 1) : ~Explicit(m))
                => \A k \in 1..(q - p - 1) :
                      Offset(p + k) =
                          Some(Between(Unwrap(Offset(p)), Unwrap(Offset(q)), k, q - p))

(* C6: the offsets of a returned gradient are non-decreasing in list order. *)
C6_Monotone ==
    Accepted =>
        \A k \in 1..(Len(Stops) - 1) : FLe(Unwrap(Offset(k)), Unwrap(Offset(k + 1)))

(* C7: every stop of a returned gradient has an offset, and it lies in the
   closed interval [0, 1]. *)
C7_UnitInterval ==
    Accepted =>
        \A k \in 1..Len(Stops) :
            /\ IsSome(Offset(k))
            /\ FLe(F(0), Unwrap(Offset(k)))
            /\ FLe(Unwrap(Offset(k)), F(1))

(* C8: with the keyword and both parentheses in place, fewer than 2
   comma-segments left after a consumed direction or shape give the error
   TooFewGradientStops; a returned gradient has one stop per remaining
   segment, at least 2, in the order of the segments. *)
C8_StopCount ==
    Returned =>
        /\ (HasShape(input) /\ Len(StopSegments(input)) < 2)
              => Unwrap(result) = Err("TooFewGradientStops", input)
        /\ Unwrap(result).ok
              => /\ Len(Stops) = Len(StopSegments(input))
                 /\ Len(Stops) >= 2
                 /\ \A k \in 1..Len(Stops) :
                       Stops[k].color =
                           ColorF(parse_css_color(
                               split_whitespace(StopSegments(input)[k])[1]).val)

C8_Witness ==
    /\ Rejected /\ ErrorKind = "TooFewGradientStops"
    /\ HasShape(input) /\ PrefixConsumed(input)
    /\ Len(Segments(input)) = 2

(* C9: a gradient is returned only for an input of the exact shape
   <keyword>(<body>): nothing follows the closing ')'. *)
C9_ExactShape ==
    Accepted =>
        /\ KeywordOf(input) \in Keywords
        /\ Len(splitn2(input, "(")) = 2
        /\ ends_with(input, ")")

----------------------------------------------------------------------------
\* The pixel count a well-formed length token stands for, read off the token.
Pixels(tok) ==
    IF ends_with(tok, "em") THEN FMul(parse_f32(Upto(tok, Len(tok) - 2)).val, F(16))
    ELSE parse_f32(Upto(tok, Len(tok) - 2)).val

Corner(tok) == [width |-> Pixels(tok), height |-> Pixels(tok)]

(* C10: parse_css_border_radius assigns the corners by token count: 1 value
   to all four; 2 values to (top-left, bottom-right) and (top-right,
   bottom-left); 3 values to top-left, (top-right, bottom-left),
   bottom-right; 4 values to top-left, top-right, bottom-right, bottom-left;
   each corner has width = height, and an em value counts 16 times. *)
C10_CornerAssignment ==
    Accepted =>
        LET t == split_whitespace(input)
            r == Unwrap(result).val
        IN /\ Len(t) \in 1..4
           /\ r.top_left = Corner(t[1])
           /\ r.top_right = Corner(t[IF Len(t) = 1 THEN 1 ELSE 2])
           /\ r.bottom_right = Corner(t[IF Len(t) <= 2 THEN 1 ELSE 3])
           /\ r.bottom_left = Corner(t[CASE Len(t) = 1 -> 1 [] Len(t) = 4 -> 4 [] OTHER -> 2])

C10_Witness ==
    /\ Accepted
    /\ split_whitespace(input) = <<"15px", "1.2em", "50px">>
    /\ Unwrap(result).val.bottom_left = [width |-> Rat(96, 5), height |-> Rat(96, 5)]
    /\ Unwrap(result).val.bottom_right = [width |-> F(50), height |-> F(50)]

----------------------------------------------------------------------------
(* What the claims about the other parsers speak of *)

Called(name) == callee = name /\ pc = "done"

\* The whitespace tokens of the input and their number.
Toks == split_whitespace(input)
Count == Len(Toks)

\* A shadow was returned (not the None of "none"), and that shadow.
ShadowReturned ==
    Called("parse_css_box_shadow") /\ Unwrap(result).ok /\ IsSome(Unwrap(result).val)
Shadow == Unwrap(Unwrap(result).val)

KeywordLast == Count > 2 /\ Toks[Count] \in {"inset", "outset"}

\* The tokens of the inputs that are lengths, and the colour of `red`.
IsLength(tok) == tok \in {"5px", "10px", "-2em"}
Red == [r |-> F(1), g |-> F(0), b |-> F(0), a |-> F(1)]
Black == [r |-> F(0), g |-> F(0), b |-> F(0), a |-> F(1)]

(* C11: a returned shadow has clip mode Inset exactly when the input has
   more than 2 tokens and the last one is `inset`, and Outset otherwise;
   when there are more than 2 tokens and the last one is `inset` or
   `outset`, the tokens handed to the length and colour parsers never
   include the last one. *)
C11_ClipMode ==
    /\ ShadowReturned =>
           /\ Shadow.clip_mode = "Inset" <=> (Count > 2 /\ Toks[Count] = "inset")
           /\ Shadow.clip_mode \in {"Inset", "Outset"}
    /\ (callee = "parse_css_box_shadow" /\ KeywordLast) => i < Count

C11_Witness ==
    /\ ShadowReturned
    /\ Toks = <<"5px", "10px", "5px", "red", "inset">>
    /\ i = 4
    /\ Shadow.clip_mode = "Inset" /\ Shadow.color = Red

(* C12, as stated: a 4-token box-shadow whose last token is `inset` or
   `outset` is parsed as h-offset, v-offset, blur with the default black
   colour; one without such a keyword as h-offset, v-offset, blur, colour. *)
C12_KeywordMeansBlur ==
    (Called("parse_css_box_shadow") /\ Count = 4
        /\ \A k \in 1..3 : IsLength(Toks[k]))
    => IF KeywordLast
       THEN /\ ShadowReturned
            /\ Shadow.offset = [x |-> Pixels(Toks[1]), y |-> Pixels(Toks[2])]
            /\ Shadow.blur_radius = Pixels(Toks[3])
            /\ Shadow.color = Black
       ELSE Toks[4] = "red" =>
            /\ ShadowReturned
            /\ Shadow.offset = [x |-> Pixels(Toks[1]), y |-> Pixels(Toks[2])]
            /\ Shadow.blur_radius = Pixels(Toks[3])
            /\ Shadow.color = Red

(* C12, amended: a 4-token box-shadow whose last token is `inset` or
   `outset` is parsed as h-offset, v-offset, colour, with blur 0: its third
   token goes to the colour parser, so a length there is a colour error.
   One without such a keyword is parsed as h-offset, v-offset, blur,
   colour. *)
C12_KeywordMeansColor ==
    (Called("parse_css_box_shadow") /\ Count = 4
        /\ IsLength(Toks[1]) /\ IsLength(Toks[2]))
    => IF KeywordLast
       THEN IF Toks[3] = "red"
            THEN /\ ShadowReturned
                 /\ Shadow.offset = [x |-> Pixels(Toks[1]), y |-> Pixels(Toks[2])]
                 /\ Shadow.blur_radius = F(0)
                 /\ Shadow.color = Red
            ELSE Rejected /\ ErrorKind = "ColorParseError"
       ELSE (IsLength(Toks[3]) /\ Toks[4] = "red") =>
            /\ ShadowReturned
            /\ Shadow.offset = [x |-> Pixels(Toks[1]), y |-> Pixels(Toks[2])]
            /\ Shadow.blur_radius = Pixels(Toks[3])
            /\ Shadow.color = Red

C12_Witness ==
    /\ ShadowReturned
    /\ Toks = <<"5px", "10px", "red", "outset">>
    /\ Shadow.color = Red /\ Shadow.blur_radius = F(0)
    /\ Shadow.offset = [x |-> F(5), y |-> F(10)]

(* C13: a 6-token box-shadow is accepted only when its sixth token is
   `inset` or `outset`. *)
C13_SixthIsKeyword ==
    (ShadowReturned /\ Count = 6) => Toks[6] \in {"inset", "outset"}

(* C14: a token count outside the allowed set (border-radius: 1 to 4;
   border: 1 or 3; box-shadow: 1 to 6), 0 tokens included, makes the parser
   return its arity error with the whole input (TooManyValues,
   InvalidBorderDeclaration, TooManyComponents), whatever the tokens are and
   with no token handed to a sub-parser. *)
C14_ArityError ==
    /\ (Called("parse_css_border_radius") /\ Count \notin 1..4)
           => result = Some(Err("TooManyValues", input))
    /\ (Called("parse_css_border") /\ Count \notin {1, 3})
           => result = Some(Err("InvalidBorderDeclaration", input))
    /\ (Called("parse_css_box_shadow") /\ Count \notin 1..6)
           => result = Some(Err("TooManyComponents", input)) /\ i = 0

C14_Witness ==
    /\ Called("parse_css_box_shadow")
    /\ Toks = <<"5px", "10px", "5px", "10px", "red", "red", "inset">>
    /\ result = Some(Err("TooManyComponents", "5px 10px 5px 10px red red inset"))
    /\ i = 0

\* The border style a style token of the inputs names.
StyleNamed(tok) ==
    CASE tok = "none" -> "None" [] tok = "solid" -> "Solid"
      [] tok = "inset" -> "Inset" [] tok = "outset" -> "Outset"

(* C15: a returned border has four equal widths, four identical (colour,
   style) sides and zero corner radii; a 1-token input gives thickness 1,
   opaque black and the style of the token; a 3-token input gives the
   thickness, style and colour of its tokens, read in this order. *)
C15_UniformBorder ==
    (Called("parse_css_border") /\ Accepted) =>
        LET widths == Unwrap(result).val.widths
            details == Unwrap(result).val.details
            zero == [width |-> F(0), height |-> F(0)]
        IN /\ \A side \in {"left", "right", "bottom"} :
                  widths[side] = widths.top /\ details[side] = details.top
           /\ \A corner \in {"top_left", "top_right", "bottom_right", "bottom_left"} :
                  details.radius[corner] = zero
           /\ Count \in {1, 3}
           /\ Count = 1 => /\ widths.top = F(1)
                           /\ details.top = [color |-> Black, style |-> StyleNamed(Toks[1])]
           /\ Count = 3 => /\ widths.top = Pixels(Toks[1])
                           /\ details.top = [color |-> Red, style |-> StyleNamed(Toks[2])]
                           /\ Toks[3] = "red"

C15_Witness ==
    /\ Called("parse_css_border") /\ Accepted
    /\ input = "5px solid red"
    /\ Unwrap(result).val.widths.bottom = F(5)
    /\ Unwrap(result).val.details.left = [color |-> Red, style |-> "Solid"]

\* The length of the longest leading run of digits and decimal points.
LeadingRun(s) ==
    Max({k \in 0..Len(s) : \A j \in 1..k : Ch(s, j) \in {"0", "1", "2", "3", "4", "5",
                                                        "6", "7", "8", "9", "."}})

(* C16: parse_pixel_value takes the longest leading run of digits and
   decimal points as the number and the rest as the unit; it succeeds only
   if the rest is `px` or `em`, and a token (it is not empty) with any other
   rest is rejected with the unrecognized-unit error. *)
C16_LeadingRun ==
    (Called("parse_pixel_value") /\ input # ""
        /\ From(input, LeadingRun(input) + 1) \notin {"px", "em"})
    => Rejected /\ ErrorKind = "InvalidComponent"

(* C17: no successful parse yields a negative radius: every corner size of
   a returned border radius is >= 0, and the blur and spread radius of a
   returned shadow are >= 0. *)
C17_NonNegative ==
    /\ (Called("parse_css_border_radius") /\ Accepted) =>
           \A corner \in {"top_left", "top_right", "bottom_right", "bottom_left"} :
               /\ FLe(F(0), Unwrap(result).val[corner].width)
               /\ FLe(F(0), Unwrap(result).val[corner].height)
    /\ ShadowReturned =>
           /\ FLe(F(0), Shadow.blur_radius)
           /\ FLe(F(0), Shadow.spread_radius)

\* A colour literal was parsed: by parse_color_no_hash, or by parse_css_color
\* after it stripped the '#'; and that literal.
LiteralParsed ==
    \/ Called("parse_color_no_hash")
    \/ Called("parse_css_color") /\ Len(input) >= 1 /\ Ch(input, 1) = "#"
Literal == IF callee = "parse_css_color" THEN From(input, 2) ELSE input

\* The hex digits that occur in the inputs, and their values.
IsHexDigit(c) == c \in {"0", "7", "9", "a", "A", "f", "F"}
Nibble(c) ==
    CASE c = "0" -> 0 [] c = "7" -> 7 [] c = "9" -> 9
      [] c \in {"a", "A"} -> 10 [] c \in {"f", "F"} -> 15
Byte(s, k) == 16 * Nibble(Ch(s, 2 * k - 1)) + Nibble(Ch(s, 2 * k))

(* C18: for a literal of 3, 4, 6 or 8 hex digits of either case, with the
   hash stripped by parse_css_color or without one, the channels are exact:
   3 digits give (17R, 17G, 17B, 255), 4 digits (17R, 17G, 17B, 17A),
   6 digits (RR, GG, BB, 255), 8 digits (RR, GG, BB, AA), with no wrap
   around 8 bits. *)
C18_ExactChannels ==
    (LiteralParsed /\ Len(Literal) \in {3, 4, 6, 8}
        /\ \A k \in 1..Len(Literal) : IsHexDigit(Ch(Literal, k)))
    => result = Some(Ok(
           CASE Len(Literal) = 3 ->
                    [r |-> 17 * Nibble(Ch(Literal, 1)), g |-> 17 * Nibble(Ch(Literal, 2)),
                     b |-> 17 * Nibble(Ch(Literal, 3)), a |-> 255]
             [] Len(Literal) = 4 ->
                    [r |-> 17 * Nibble(Ch(Literal, 1)), g |-> 17 * Nibble(Ch(Literal, 2)),
                     b |-> 17 * Nibble(Ch(Literal, 3)), a |-> 17 * Nibble(Ch(Literal, 4))]
             [] Len(Literal) = 6 ->
                    [r |-> Byte(Literal, 1), g |-> Byte(Literal, 2),
                     b |-> Byte(Literal, 3), a |-> 255]
             [] Len(Literal) = 8 ->
                    [r |-> Byte(Literal, 1), g |-> Byte(Literal, 2),
                     b |-> Byte(Literal, 3), a |-> Byte(Literal, 4)]))

C18_Witness ==
    /\ Called("parse_css_color")
    /\ input = "#aF0"
    /\ result = Some(Ok([r |-> 170, g |-> 255, b |-> 0, a |-> 255]))

(* C19: a literal of 3, 4, 6 or 8 characters with a character that is not
   a hex digit is rejected with InvalidColorComponent carrying that
   character; a literal of any other length is rejected; no literal with
   such a character (a leading `+`, say) is accepted. *)
C19_BadDigitRejected ==
    LiteralParsed =>
        LET bad == {k \in 1..Len(Literal) : ~IsHexDigit(Ch(Literal, k))} IN
        /\ (bad # {} /\ Len(Literal) \in {3, 4, 6, 8}) =>
               /\ Rejected
               /\ Unwrap(result).err = <<"InvalidColorComponent", Ch(Literal, Min(bad))>>
        /\ Len(Literal) \notin {3, 4, 6, 8} => Rejected
        /\ bad # {} => Rejected

\* The numbers written in the angle inputs.
AngleNumbers == {"50", "1", "100", "-90", "0.5"}
Written32(n) ==
    CASE n = "50" -> F(50) [] n = "1" -> F(1) [] n = "100" -> F(100)
      [] n = "-90" -> F(-90) [] n = "0.5" -> Rat(1, 2)

(* C20: parse_direction turns a first token N`deg`, N`rad` or N`grad` into
   an angle in degrees: N, N*180/pi and N*360/400 (so `100grad` is accepted
   and gives 90). *)
C20_Degrees ==
    \A n \in AngleNumbers :
        /\ (Called("parse_direction") /\ input = n \o "deg")
               => result = Some(Ok(Angle(Written32(n), 0)))
        /\ (Called("parse_direction") /\ input = n \o "rad")
               => result = Some(Ok(Angle(FMul(Written32(n), F(180)), -1)))
        /\ (Called("parse_direction") /\ input = n \o "grad")
               => result = Some(Ok(Angle(FDiv(FMul(Written32(n), F(360)), F(400)), 0)))

\* The edge keywords, the corner each names, and the edge across.
Edges == {"right", "left", "top", "bottom"}
Named(c) ==
    CASE c = "right" -> "Right" [] c = "left" -> "Left"
      [] c = "top" -> "Top" [] c = "bottom" -> "Bottom"
Across(c) ==
    CASE c = "right" -> "left" [] c = "left" -> "right"
      [] c = "top" -> "bottom" [] c = "bottom" -> "top"

(* C21: `to c` gives FromTo(opposite(c), c); `to c1 c2` gives
   FromTo(opposite(d), d) with d the diagonal the two edges bound, the same
   for either order; an edge with itself or with its opposite fails; in a
   returned FromTo(s, e), s = opposite(e) and opposite(opposite(e)) = e. *)
C21_DirectionAlgebra ==
    Called("parse_direction") =>
        /\ \A c \in Edges :
               /\ input = "to " \o c
                      => result = Some(Ok(FromTo(Named(Across(c)), Named(c))))
               /\ input \in {"to " \o c \o " " \o c, "to " \o c \o " " \o Across(c)}
                      => Rejected
        /\ \A v \in {"top", "bottom"}, h \in {"left", "right"} :
               input \in {"to " \o v \o " " \o h, "to " \o h \o " " \o v}
                   => result = Some(Ok(FromTo(Named(Across(v)) \o Named(Across(h)),
                                              Named(v) \o Named(h))))
        /\ (Accepted /\ Unwrap(result).val.kind = "FromTo")
               => /\ Unwrap(result).val.from = opposite(Unwrap(result).val.to)
                  /\ opposite(opposite(Unwrap(result).val.to)) = Unwrap(result).val.to

C21_Witness ==
    /\ Called("parse_direction")
    /\ input = "to bottom right"
    /\ result = Some(Ok(FromTo("TopLeft", "BottomRight")))

(* C22: for every input, the empty string and strings without a digit
   included, parse_pixel_value returns a value or a typed error; it never
   aborts. *)
C22_NeverAborts ==
    Called("parse_pixel_value") => (Accepted \/ ErrorKind # "panic")

(* C23: an InvalidComponent error of parse_pixel_value carries exactly the
   unit suffix, the text after the numeric part, with no digit of the
   number (`pt` for `15pt`). *)
C23_PayloadIsSuffix ==
    (Called("parse_pixel_value") /\ Rejected /\ ErrorKind = "InvalidComponent")
        => Unwrap(result).err[2] = From(input, LeadingRun(input) + 1)

(* C24: when a token of a border-radius value fails to parse, the error
   tells which slot failed: an invalid token first and a valid one second
   give another error than the same two tokens in the other order; tokens
   are parsed left to right and the error is that of the first failing
   token. *)
C24_SlotIdentified ==
    LET bad == {k \in 1..Count : ~IsLength(Toks[k])} IN
    /\ (Called("parse_css_border_radius") /\ Count \in 1..4 /\ bad # {})
           => /\ Rejected
              /\ Unwrap(result).err = parse_pixel_value(Toks[Min(bad)]).err
    /\ (Called("parse_css_border_radius") /\ Count = 2 /\ bad = {1})
           => Unwrap(result) # parse_css_border_radius(Toks[2] \o " " \o Toks[1])

(* C25: parse_percentage returns a value only for a token that ends in `%`
   and whose text before that `%` parses as a number; a token without a `%`
   suffix (`50`, `5%0`) yields no value, and a gradient stop with such a
   second token has no offset. *)
C25_PercentSuffix ==
    /\ (Called("parse_percentage") /\ IsSome(Unwrap(result)))
           => /\ ends_with(input, "%")
              /\ parse_f32(Upto(input, Len(input) - 1)) = Ok(Unwrap(Unwrap(result)))
    /\ (Called("parse_percentage") /\ ~ends_with(input, "%"))
           => Unwrap(result) = None
    /\ (Called("parse_gradient_stop") /\ Accepted /\ Count >= 2
           /\ ~ends_with(Toks[2], "%"))
           => Unwrap(result).val.offset = None

\* The stored increase is about to be added to the offset of stop i.
IncreaseApplied ==
    /\ pc = "loop" /\ i < Len(color_stops)
    /\ ~IsSome(color_stops[i + 1].offset)
    /\ IsSome(increase_stop_cnt)

(* C26, as stated: an increase computed with the divisor next_count = 0 is
   never added to an offset: whenever the stored increase is applied it was
   computed with next_count >= 1; so every offset the normalization assigns
   is a finite number. *)
C26_FiniteOffsets ==
    /\ IncreaseApplied => next_count >= 1
    /\ (callee = "parse_css_background" /\ Accepted) =>
           LET written == Written IN
           \A k \in 1..Len(Stops) :
               ~IsSome(written[k].offset) => IsFinite(Unwrap(Offset(k)))

(* C26, amended: an increase computed with the divisor next_count = 0 is
   never added to an offset: whenever the stored increase is applied it was
   computed with next_count >= 1; so every offset the normalization assigns
   is a finite number when the offsets written in the input are finite. *)
C26_NoZeroDivisor ==
    /\ IncreaseApplied => next_count >= 1
    /\ (callee = "parse_css_background" /\ Accepted) =>
           LET written == Written IN
           (\A k \in 1..Len(written) :
                IsSome(written[k].offset) => IsFinite(Unwrap(written[k].offset)))
               => \A k \in 1..Len(Stops) : IsFinite(Unwrap(Offset(k)))

C26_Witness ==
    /\ callee = "parse_css_background" /\ Accepted
    /\ Len(Stops) = 3
    /\ Explicit(1) /\ ~Explicit(2) /\ ~Explicit(3)
    /\ next_count = 1
    /\ IsSome(increase_stop_cnt) /\ IsFinite(Unwrap(increase_stop_cnt))
    /\ \A k \in 1..3 : IsFinite(Unwrap(Offset(k)))

(* C27: to_point puts each edge midpoint on the side of the two corners
   that bound it: Top has the y of TopLeft and TopRight, Bottom the y of
   BottomLeft and BottomRight, Left the x of TopLeft, Right the x of
   TopRight; so to_points of FromTo(Top, Bottom) runs from the y of the top
   corners to the y of the bottom corners. *)
C27_EdgesOnCornerSides ==
    /\ Called("to_point") =>
           /\ input.corner = "Top" =>
                  /\ Unwrap(result).y = to_point("TopLeft", input.rect).y
                  /\ Unwrap(result).y = to_point("TopRight", input.rect).y
           /\ input.corner = "Bottom" =>
                  /\ Unwrap(result).y = to_point("BottomLeft", input.rect).y
                  /\ Unwrap(result).y = to_point("BottomRight", input.rect).y
           /\ input.corner = "Left" =>
                  Unwrap(result).x = to_point("TopLeft", input.rect).x
           /\ input.corner = "Right" =>
                  Unwrap(result).x = to_point("TopRight", input.rect).x
    /\ (Called("to_points") /\ input.direction = FromTo("Top", "Bottom")) =>
           /\ Unwrap(result)[1].y = to_point("TopLeft", input.rect).y
           /\ Unwrap(result)[2].y = to_point("BottomLeft", input.rect).y

(* C28: every name of the built-in colour table, in both spellings, parses
   through parse_css_color, to the same colour for both; `transparent` and
   `Transparent` give alpha 0, every other name alpha 255. *)
C28_BuiltinNames ==
    Called("parse_css_color") =>
        \A k \in 1..Len(ColorTable) :
            input \in {ColorTable[k][1], ColorTable[k][2]} =>
                /\ Accepted
                /\ Unwrap(result) = parse_css_color(ColorTable[k][1])
                /\ Unwrap(result) = parse_css_color(ColorTable[k][2])
                /\ Unwrap(result).val.a =
                       (IF input \in {"Transparent", "transparent"} THEN 0 ELSE 255)

====
